---- MODULE Spec2Model ----
(***************************************************************************)
(* Devotionals API (src/server.ts): an Express server over one SQLite      *)
(* table, `devotionals`, with soft delete.                                 *)
(*                                                                         *)
(* better-sqlite3 is synchronous and no handler awaits, so Node runs each  *)
(* route handler to completion before it starts the next one: a handler is *)
(* one atomic action, and requests that are in flight at the same time are *)
(* handled in some order, which the interleaving of the actions covers.    *)
(*                                                                         *)
(* Strings that the code converts (the :id path parameter) are sequences   *)
(* of one-character strings, so that Number(id) and SQLite's column        *)
(* affinity are computed from the characters.                              *)
(***************************************************************************)
EXTENDS Integers, Sequences, FiniteSets, TLC

\* Bounds of the model: rows the table may hold, and seconds the clock runs.
MaxRows == 2
MaxClock == 1

\* SQL NULL in the timestamp columns (timestamps are seconds >= 0).
NULL == -1

(***************************************************************************)
(* JavaScript values of req.body.verse and req.body.content.  A key that   *)
(* is missing from the JSON body destructures to undefined.  The values    *)
(* are those of the operations create(verse, content) and                   *)
(* updatePartial(id, verse?, content?): a string, possibly empty, or        *)
(* nothing; JSON numbers, booleans, arrays and objects are not requests of  *)
(* these operations and are not modelled.                                   *)
(***************************************************************************)
Undefined == [type |-> "undefined"]
Str(s) == [type |-> "string", str |-> s]

\* The values a request body supplies for verse and for content.
BodyValues == {Undefined, Str(""), Str("A"), Str("B")}

\* JavaScript truthiness, as used by `!verse` and `!content`.
Truthy(v) == v.type = "string" /\ v.str # ""

\* better-sqlite3 binds a string as TEXT; binding undefined throws a TypeError,
\* which the handler's catch answers with 500.
Bindable(v) == v.type = "string"

\* The :id path parameters that requests carry (none uses an exponent or
\* the word Infinity, which the conversions below do not parse).
IdInputs ==
    { <<"1">>, <<"2">>, <<"3">>,
      <<"a", "b", "c">>, <<"-", "1">>, <<"1", ".", "5">>,
      <<"1", ".", "0">>, <<"0", "x", "1">> }

(***************************************************************************)
(* Numbers: a JavaScript number or an SQLite numeric value is num/den with *)
(* den a power of ten, or NaN.                                             *)
(***************************************************************************)
NaN == [nan |-> TRUE]
Num(n, d) == [nan |-> FALSE, num |-> n, den |-> d]

HexDigits ==
    << "0", "1", "2", "3", "4", "5", "6", "7", "8", "9",
       "a", "b", "c", "d", "e", "f" >>

\* The value of a digit character.
DigitValue(c) == (CHOOSE i \in DOMAIN HexDigits : HexDigits[i] = c) - 1

\* Every character of s is a digit of the given radix.
AllDigits(s, radix) ==
    \A i \in DOMAIN s : \E j \in 1..radix : HexDigits[j] = s[i]

RECURSIVE DigitsValue(_, _)
DigitsValue(s, radix) ==
    IF s = <<>> THEN 0
    ELSE DigitsValue(SubSeq(s, 1, Len(s) - 1), radix) * radix
         + DigitValue(s[Len(s)])

RECURSIVE Pow10(_)
Pow10(k) == IF k = 0 THEN 1 ELSE 10 * Pow10(k - 1)

RECURSIVE StripLeft(_)
StripLeft(s) ==
    IF s # <<>> /\ Head(s) = " " THEN StripLeft(Tail(s)) ELSE s

RECURSIVE StripRight(_)
StripRight(s) ==
    IF s # <<>> /\ s[Len(s)] = " "
    THEN StripRight(SubSeq(s, 1, Len(s) - 1))
    ELSE s

Trim(s) == StripRight(StripLeft(s))

\* digits [ "." [digits] ]  |  "." digits
UnsignedDecimal(s) ==
    LET dots == {i \in DOMAIN s : s[i] = "."}
    IN  IF Cardinality(dots) > 1 THEN NaN
        ELSE LET p == IF dots = {} THEN Len(s) + 1
                      ELSE CHOOSE i \in dots : TRUE
                 ip == SubSeq(s, 1, p - 1)
                 fp == SubSeq(s, p + 1, Len(s))
             IN  IF ~AllDigits(ip, 10) \/ ~AllDigits(fp, 10)
                    \/ (ip = <<>> /\ fp = <<>>)
                 THEN NaN
                 ELSE Num(DigitsValue(ip \o fp, 10), Pow10(Len(fp)))

SignedDecimal(s) ==
    IF s # <<>> /\ Head(s) \in {"-", "+"}
    THEN LET u == UnsignedDecimal(Tail(s))
         IN  IF u.nan THEN NaN
             ELSE IF Head(s) = "-" THEN Num(0 - u.num, u.den) ELSE u
    ELSE UnsignedDecimal(s)

\* An unsigned literal with a radix prefix: 0x, 0o, 0b.
RadixLiteral(s, radix) ==
    LET ds == SubSeq(s, 3, Len(s))
    IN  IF ds # <<>> /\ AllDigits(ds, radix)
        THEN Num(DigitsValue(ds, radix), 1)
        ELSE NaN

\* JavaScript Number(string).
Number(s) ==
    LET t == Trim(s)
    IN  IF t = <<>> THEN Num(0, 1)
        ELSE IF Len(t) >= 2 /\ t[1] = "0" /\ t[2] \in {"x", "X"}
             THEN RadixLiteral(t, 16)
        ELSE IF Len(t) >= 2 /\ t[1] = "0" /\ t[2] \in {"o", "O"}
             THEN RadixLiteral(t, 8)
        ELSE IF Len(t) >= 2 /\ t[1] = "0" /\ t[2] \in {"b", "B"}
             THEN RadixLiteral(t, 2)
        ELSE SignedDecimal(t)

isNaN(x) == x.nan

\* SQLite: a TEXT parameter compared with the INTEGER column id is first
\* converted by the column's affinity when it is a well-formed decimal
\* literal; any other text stays TEXT (NaN here) and equals no integer.
TextToNumeric(s) ==
    LET t == Trim(s)
    IN  IF t = <<>> THEN NaN ELSE SignedDecimal(t)

\* Number(id) and the affinity conversion of every request id, computed once.
NumberOfId == [id \in IdInputs |-> Number(id)]
NumericOfId == [id \in IdInputs |-> TextToNumeric(id)]

\* `id = ?` with the raw string bound, as in statement.get(id), run(.., id).
IdEqualsText(rowid, id) ==
    LET v == NumericOfId[id]
    IN  ~v.nan /\ v.num = rowid * v.den

\* `id = ?` with a JavaScript number bound, as in statement.run(Number(id)).
IdEqualsNumber(rowid, x) == ~x.nan /\ x.num = rowid * x.den

(***************************************************************************)
(* State.                                                                  *)
(***************************************************************************)
VARIABLES
    devotionals,        \* the table, in rowid order
    sqlite_sequence,    \* AUTOINCREMENT: the largest rowid ever assigned
    now,                \* the wall clock, in seconds (CURRENT_TIMESTAMP)
    last,               \* the last request handled (op, id) and its response
    delete204,          \* per rowid: DELETE requests on it answered 204
    deletedAtWrites,    \* per rowid: the values written to deleted_at
    inflight            \* the requests of a race: received, answered or not

vars ==
    <<devotionals, sqlite_sequence, now, last, delete204, deletedAtWrites,
      inflight>>

\* req.params.id of a route without :id
NoId == <<>>

Response(op, id, status, body) ==
    [op |-> op, id |-> id, status |-> status, body |-> body]

Error(msg) == [error |-> msg]

Init ==
    /\ devotionals = <<>>
    /\ sqlite_sequence = 0
    /\ now = 0
    /\ last = Response("none", NoId, 0, [none |-> TRUE])
    /\ delete204 = <<>>
    /\ deletedAtWrites = <<>>
    /\ inflight = <<>>

(***************************************************************************)
(* The SQL statements.                                                     *)
(***************************************************************************)
\* InsertRow with the two bound values in the wrong order.
InsertRow_Swapped(rowid, verse, content) ==
    [ id |-> rowid,
      verse |-> content.str,
      content |-> verse.str,
      created_at |-> now,
      updated_at |-> NULL,
      deleted_at |-> NULL ]

\* InsertRow whose id is one more than the number of active rows (ids of
\* soft-deleted rows are taken again).
InsertRow_IdFromActiveCount(rowid, verse, content) ==
    [ id |-> Cardinality({i \in DOMAIN devotionals :
                             devotionals[i].deleted_at = NULL}) + 1,
      verse |-> verse.str,
      content |-> content.str,
      created_at |-> now,
      updated_at |-> NULL,
      deleted_at |-> NULL ]

\* InsertRow that stamps updated_at as well as created_at.
InsertRow_UpdatedAtSet(rowid, verse, content) ==
    [ id |-> rowid,
      verse |-> verse.str,
      content |-> content.str,
      created_at |-> now,
      updated_at |-> now,
      deleted_at |-> NULL ]

\* INSERT INTO devotionals (verse, content) VALUES (?, ?): the row stored,
\* with the column defaults of CREATE TABLE devotionals.
InsertRow(rowid, verse, content) ==
    [ id |-> rowid,
      verse |-> verse.str,
      content |-> content.str,
      created_at |-> now,
      updated_at |-> NULL,
      deleted_at |-> NULL ]

\* ... WHERE deleted_at IS NULL (the list)
ListWhere(r) == r.deleted_at = NULL

\* ... ORDER BY created_at DESC: q is in an order the clause allows.  Rows of
\* equal created_at may come in any order (SQL leaves it open).
OrderedByCreatedAtDesc(q) ==
    \A i \in 1..(Len(q) - 1) : q[i].created_at >= q[i + 1].created_at

\* The sequences that list exactly the rows of table t that satisfy ListWhere.
Selections(t) ==
    LET hit == {i \in DOMAIN t : ListWhere(t[i])}
        n == Cardinality(hit)
    IN  { [k \in 1..n |-> t[f[k]]] :
            f \in {g \in [1..n -> hit] : \A a, b \in 1..n : a # b => g[a] # g[b]} }

\* SELECT * FROM devotionals WHERE deleted_at IS NULL ORDER BY created_at DESC
SelectActive(t) == {q \in Selections(t) : OrderedByCreatedAtDesc(q)}

\* SelectByIdWhere without `AND deleted_at IS NULL`.
SelectByIdWhere_NoDeletedFilter(r, id) == IdEqualsText(r.id, id)

\* ... WHERE id = ? AND deleted_at IS NULL, the raw id string bound (GET)
SelectByIdWhere(r, id) == IdEqualsText(r.id, id) /\ r.deleted_at = NULL

\* UpdateWhere without `AND deleted_at IS NULL`.
UpdateWhere_NoDeletedFilter(r, id) == IdEqualsText(r.id, id)

\* ... WHERE id = ? AND deleted_at IS NULL, the raw id string bound (PATCH)
\* UpdateWhere without `id = ?`.
UpdateWhere_AnyActive(r, id) == r.deleted_at = NULL

\* UpdateWhere with `AND updated_at IS NULL` added.
UpdateWhere_OnlyNeverUpdated(r, id) ==
    IdEqualsText(r.id, id) /\ r.deleted_at = NULL /\ r.updated_at = NULL

UpdateWhere(r, id) == IdEqualsText(r.id, id) /\ r.deleted_at = NULL

\* DeleteWhere without `AND deleted_at IS NULL`.
DeleteWhere_NoDeletedFilter(r, x) == IdEqualsNumber(r.id, x)

\* ... WHERE id = ? AND deleted_at IS NULL, Number(id) bound (DELETE)
DeleteWhere(r, x) == IdEqualsNumber(r.id, x) /\ r.deleted_at = NULL

\* UpdateSet whose content-only statement names the wrong column.
UpdateSet_ContentIntoVerse(r, verse, content) ==
    IF ~Truthy(verse)
    THEN [r EXCEPT !.verse = content.str, !.updated_at = now]
    ELSE IF ~Truthy(content)
    THEN [r EXCEPT !.verse = verse.str, !.updated_at = now]
    ELSE [r EXCEPT !.content = content.str, !.verse = verse.str,
                   !.updated_at = now]

\* UpdateSet that stamps created_at as well as updated_at.
UpdateSet_TouchesCreatedAt(r, verse, content) ==
    IF ~Truthy(verse)
    THEN [r EXCEPT !.content = content.str, !.updated_at = now, !.created_at = now]
    ELSE IF ~Truthy(content)
    THEN [r EXCEPT !.verse = verse.str, !.updated_at = now, !.created_at = now]
    ELSE [r EXCEPT !.content = content.str, !.verse = verse.str,
                   !.updated_at = now, !.created_at = now]

\* The SET clause of the three UPDATE statements of the PATCH handler, chosen
\* by `if(!verse) .. else if(!content) .. else ..`.
UpdateSet(r, verse, content) ==
    IF ~Truthy(verse)
    THEN [r EXCEPT !.content = content.str, !.updated_at = now]
    ELSE IF ~Truthy(content)
    THEN [r EXCEPT !.verse = verse.str, !.updated_at = now]
    ELSE [r EXCEPT !.content = content.str, !.verse = verse.str,
                   !.updated_at = now]

\* The values that the UPDATE statement chosen by the PATCH handler binds.
UpdateBinds(verse, content) ==
    IF ~Truthy(verse) THEN {content}
    ELSE IF ~Truthy(content) THEN {verse}
    ELSE {content, verse}

\* DeleteSet that stamps updated_at instead of deleted_at.
DeleteSet_WrongColumn(r) == [r EXCEPT !.updated_at = now]

\* SET deleted_at = CURRENT_TIMESTAMP
DeleteSet(r) == [r EXCEPT !.deleted_at = now]

(***************************************************************************)
(* The validations of the handlers.                                        *)
(***************************************************************************)
\* ValidId without the isNaN test.
ValidId_NoCheck(id) == id \in IdInputs

\* if(isNaN(Number(id))) return 400
ValidId(id) == ~isNaN(NumberOfId[id])

\* CreateValid that tests verse only.
CreateValid_VerseOnly(verse, content) == Truthy(verse)

\* if (!verse || !content) return 400
CreateValid(verse, content) == ~(~Truthy(verse) \/ ~Truthy(content))

\* PatchValid that tests for presence instead of truthiness.
PatchValid_Presence(verse, content) == ~(verse = Undefined /\ content = Undefined)

\* if (!verse && !content) return 400
PatchValid(verse, content) == ~(~Truthy(verse) /\ ~Truthy(content))

(***************************************************************************)
(* The route handlers.                                                     *)
(***************************************************************************)
\* app.get('/api/devotionals')
ListDevotionals ==
    /\ \E q \in SelectActive(devotionals) :
          last' = Response("list", NoId, 200, [rows |-> q])
    /\ UNCHANGED <<devotionals, sqlite_sequence, now, delete204, deletedAtWrites>>

\* The response of app.get('/api/devotionals/:id') to id on table t.
GetResponse(t, id) ==
    IF ~ValidId(id)
    THEN Response("get", id, 400, Error("Invalid id provided. Id must be a number"))
    ELSE LET hit == {i \in DOMAIN t : SelectByIdWhere(t[i], id)}
         IN  IF hit # {}
             THEN Response("get", id, 200, t[CHOOSE i \in hit : TRUE])
             ELSE Response("get", id, 404, Error("Devotional not found or deleted."))

\* app.get('/api/devotionals/:id')
GetDevotional(id) ==
    /\ last' = GetResponse(devotionals, id)
    /\ UNCHANGED <<devotionals, sqlite_sequence, now, delete204, deletedAtWrites>>

\* app.post('/api/devotionals')
CreateDevotional(verse, content) ==
    IF ~CreateValid(verse, content)
    THEN /\ last' = Response("post", NoId, 400, Error("Both Verse and Content are required"))
         /\ UNCHANGED <<devotionals, sqlite_sequence, now, delete204, deletedAtWrites>>
    ELSE IF ~(Bindable(verse) /\ Bindable(content))
    THEN /\ last' = Response("post", NoId, 500, Error("Failed to create devotional."))
         /\ UNCHANGED <<devotionals, sqlite_sequence, now, delete204, deletedAtWrites>>
    ELSE /\ Len(devotionals) < MaxRows
         /\ LET lastInsertRowid == sqlite_sequence + 1
            IN  /\ devotionals' =
                       Append(devotionals, InsertRow(lastInsertRowid, verse, content))
                /\ sqlite_sequence' = lastInsertRowid
                /\ last' = Response("post", NoId, 201,
                                    [id |-> lastInsertRowid, verse |-> verse,
                                     content |-> content])
         /\ delete204' = Append(delete204, 0)
         /\ deletedAtWrites' = Append(deletedAtWrites, <<>>)
         /\ UNCHANGED now

\* app.patch('/api/devotionals/:id')
UpdateDevotional(id, verse, content) ==
    IF ~ValidId(id)
    THEN /\ last' = Response("patch", id, 400, Error("Invalid id provided. Id must be a number"))
         /\ UNCHANGED <<devotionals, sqlite_sequence, now, delete204, deletedAtWrites>>
    ELSE IF ~PatchValid(verse, content)
    THEN /\ last' = Response("patch", id, 400, Error("At least Verse or Content is required"))
         /\ UNCHANGED <<devotionals, sqlite_sequence, now, delete204, deletedAtWrites>>
    ELSE IF \E v \in UpdateBinds(verse, content) : ~Bindable(v)
    THEN /\ last' = Response("patch", id, 500, Error("Failed to update devotional."))
         /\ UNCHANGED <<devotionals, sqlite_sequence, now, delete204, deletedAtWrites>>
    ELSE LET hit == {i \in DOMAIN devotionals : UpdateWhere(devotionals[i], id)}
             changes == Cardinality(hit)
         IN  /\ devotionals' =
                    [i \in DOMAIN devotionals |->
                        IF i \in hit THEN UpdateSet(devotionals[i], verse, content)
                        ELSE devotionals[i]]
             /\ last' = IF changes > 0
                        THEN Response("patch", id, 200,
                                      [id |-> id, verse |-> verse, content |-> content])
                        ELSE Response("patch", id, 404,
                                      Error("Devotional not found or could not be updated."))
             /\ UNCHANGED <<sqlite_sequence, now, delete204, deletedAtWrites>>

\* app.delete('/api/devotionals/:id')
DeleteDevotional(id) ==
    IF ~ValidId(id)
    THEN /\ last' = Response("delete", id, 400, Error("Invalid id provided. Id must be a number"))
         /\ UNCHANGED <<devotionals, sqlite_sequence, now, delete204, deletedAtWrites>>
    ELSE LET hit == {i \in DOMAIN devotionals : DeleteWhere(devotionals[i], NumberOfId[id])}
             changes == Cardinality(hit)
         IN  /\ devotionals' =
                    [i \in DOMAIN devotionals |->
                        IF i \in hit THEN DeleteSet(devotionals[i]) ELSE devotionals[i]]
             /\ last' = IF changes > 0
                        THEN Response("delete", id, 204, [none |-> TRUE])
                        ELSE Response("delete", id, 404,
                                      Error("Devotional not found or already deleted."))
             /\ deletedAtWrites' =
                    [i \in DOMAIN deletedAtWrites |->
                        IF i \in hit THEN Append(deletedAtWrites[i], now)
                        ELSE deletedAtWrites[i]]
             /\ delete204' =
                    [i \in DOMAIN delete204 |->
                        IF changes > 0 /\ IdEqualsNumber(devotionals[i].id, NumberOfId[id])
                        THEN delete204[i] + 1
                        ELSE delete204[i]]
             /\ UNCHANGED <<sqlite_sequence, now>>

\* A second passes.
Tick ==
    /\ now < MaxClock
    /\ now' = now + 1
    /\ UNCHANGED <<devotionals, sqlite_sequence, last, delete204, deletedAtWrites>>

\* A request is handled as soon as it is received: nothing stays in flight.
Next ==
    \/ Tick /\ UNCHANGED inflight
    \/ ListDevotionals /\ UNCHANGED inflight
    \/ \E id \in IdInputs : GetDevotional(id) /\ UNCHANGED inflight
    \/ \E verse, content \in BodyValues :
          CreateDevotional(verse, content) /\ UNCHANGED inflight
    \/ \E id \in IdInputs : \E verse, content \in BodyValues :
          UpdateDevotional(id, verse, content) /\ UNCHANGED inflight
    \/ \E id \in IdInputs : DeleteDevotional(id) /\ UNCHANGED inflight

Spec == Init /\ [][Next]_vars

(***************************************************************************)
(* The second variant of the server (src/server.ts from line 229).  Its    *)
(* handlers are those of the first but for the wording of messages and for *)
(* the values bound by the full update of the PATCH handler.               *)
(***************************************************************************)
\* `UPDATE devotionals SET content = ?, verse = ? ...`.run(verse, content, id)
\* in the last branch: the first parameter, content, is bound to verse and
\* the second, verse, to content.
UpdateSet2(r, verse, content) ==
    IF ~Truthy(verse)
    THEN [r EXCEPT !.content = content.str, !.updated_at = now]
    ELSE IF ~Truthy(content)
    THEN [r EXCEPT !.verse = verse.str, !.updated_at = now]
    ELSE [r EXCEPT !.content = verse.str, !.verse = content.str,
                   !.updated_at = now]

\* app.patch('/api/devotionals/:id'), second variant
UpdateDevotional2(id, verse, content) ==
    IF ~ValidId(id)
    THEN /\ last' = Response("patch", id, 400, Error("Invalid id provided. Id must be a number"))
         /\ UNCHANGED <<devotionals, sqlite_sequence, now, delete204, deletedAtWrites>>
    ELSE IF ~PatchValid(verse, content)
    THEN /\ last' = Response("patch", id, 400, Error("Atleast Verse or content is required"))
         /\ UNCHANGED <<devotionals, sqlite_sequence, now, delete204, deletedAtWrites>>
    ELSE IF \E v \in UpdateBinds(verse, content) : ~Bindable(v)
    THEN /\ last' = Response("patch", id, 500, Error("Failed to update devotionals."))
         /\ UNCHANGED <<devotionals, sqlite_sequence, now, delete204, deletedAtWrites>>
    ELSE LET hit == {i \in DOMAIN devotionals : UpdateWhere(devotionals[i], id)}
             changes == Cardinality(hit)
         IN  /\ devotionals' =
                    [i \in DOMAIN devotionals |->
                        IF i \in hit THEN UpdateSet2(devotionals[i], verse, content)
                        ELSE devotionals[i]]
             /\ last' = IF changes > 0
                        THEN Response("patch", id, 200,
                                      [id |-> id, verse |-> verse, content |-> content])
                        ELSE Response("patch", id, 404,
                                      Error("Devotional not found or could not be updated."))
             /\ UNCHANGED <<sqlite_sequence, now, delete204, deletedAtWrites>>

NextVariant2 ==
    \/ Tick /\ UNCHANGED inflight
    \/ ListDevotionals /\ UNCHANGED inflight
    \/ \E id \in IdInputs : GetDevotional(id) /\ UNCHANGED inflight
    \/ \E verse, content \in BodyValues :
          CreateDevotional(verse, content) /\ UNCHANGED inflight
    \/ \E id \in IdInputs : \E verse, content \in BodyValues :
          UpdateDevotional2(id, verse, content) /\ UNCHANGED inflight
    \/ \E id \in IdInputs : DeleteDevotional(id) /\ UNCHANGED inflight

SpecVariant2 == Init /\ [][NextVariant2]_vars

(***************************************************************************)
(* The store fails: db.prepare or the statement throws (an I/O error, a    *)
(* locked file, a missing table), after the validations, which precede the *)
(* first use of db in every handler.  The statement changes no row and the *)
(* handler's catch answers.                                                *)
(***************************************************************************)
\* app.get('/api/devotionals'), catch
ListDevotionalsStoreError ==
    /\ last' = Response("list", NoId, 500, Error("Failed to retrieve devotionals."))
    /\ UNCHANGED <<devotionals, sqlite_sequence, now, delete204, deletedAtWrites>>

\* app.get('/api/devotionals/:id'), catch
GetDevotionalStoreError(id) ==
    /\ ValidId(id)
    /\ last' = Response("get", id, 404, Error("Devotional Not Found"))
    /\ UNCHANGED <<devotionals, sqlite_sequence, now, delete204, deletedAtWrites>>

\* app.post('/api/devotionals'), catch
CreateDevotionalStoreError(verse, content) ==
    /\ CreateValid(verse, content)
    /\ last' = Response("post", NoId, 500, Error("Failed to create devotional."))
    /\ UNCHANGED <<devotionals, sqlite_sequence, now, delete204, deletedAtWrites>>

\* app.patch('/api/devotionals/:id'), catch
UpdateDevotionalStoreError(id, verse, content) ==
    /\ ValidId(id)
    /\ PatchValid(verse, content)
    /\ last' = Response("patch", id, 500, Error("Failed to update devotional."))
    /\ UNCHANGED <<devotionals, sqlite_sequence, now, delete204, deletedAtWrites>>

\* app.delete('/api/devotionals/:id'), catch
DeleteDevotionalStoreError(id) ==
    /\ ValidId(id)
    /\ last' = Response("delete", id, 500, Error("Failed to delete devotional."))
    /\ UNCHANGED <<devotionals, sqlite_sequence, now, delete204, deletedAtWrites>>

\* The handlers over a store that may fail at any request.
NextStoreError ==
    \/ Next
    \/ ListDevotionalsStoreError /\ UNCHANGED inflight
    \/ \E id \in IdInputs : GetDevotionalStoreError(id) /\ UNCHANGED inflight
    \/ \E verse, content \in BodyValues :
          CreateDevotionalStoreError(verse, content) /\ UNCHANGED inflight
    \/ \E id \in IdInputs : \E verse, content \in BodyValues :
          UpdateDevotionalStoreError(id, verse, content) /\ UNCHANGED inflight
    \/ \E id \in IdInputs : DeleteDevotionalStoreError(id) /\ UNCHANGED inflight

SpecStoreError == Init /\ [][NextStoreError]_vars

(***************************************************************************)
(* Two PATCH requests in flight together.  Node runs one handler at a time *)
(* and better-sqlite3 is synchronous, so a handler runs from its first     *)
(* line to its response without yielding: two concurrent requests are      *)
(* handled one after the other, in either order.                           *)
(***************************************************************************)
\* The request ids that name record 1 to the PATCH handler.
RaceIds == {id \in IdInputs : IdEqualsText(1, id)}

\* A received PATCH request: status 0 and order 0 until it is answered.
RaceRequests ==
    [id : RaceIds, verse : BodyValues, content : BodyValues,
     status : {0}, order : {0}]

\* Record 1 was created and is active; two PATCH requests on it have arrived.
InitRace ==
    /\ now = 0
    /\ devotionals = <<InsertRow(1, Str("A"), Str("B"))>>
    /\ sqlite_sequence = 1
    /\ last = Response("post", NoId, 201,
                       [id |-> 1, verse |-> Str("A"), content |-> Str("B")])
    /\ delete204 = <<0>>
    /\ deletedAtWrites = << <<>> >>
    /\ inflight \in [1..2 -> RaceRequests]

Answered == {k \in DOMAIN inflight : inflight[k].status # 0}

\* The event loop runs the PATCH handler on request k, to its response.
AnswerInflight(k) ==
    /\ inflight[k].status = 0
    /\ UpdateDevotional(inflight[k].id, inflight[k].verse, inflight[k].content)
    /\ inflight' = [inflight EXCEPT ![k].status = last'.status,
                                     ![k].order = Cardinality(Answered) + 1]

NextRace ==
    \/ Tick /\ UNCHANGED inflight
    \/ \E k \in DOMAIN inflight : AnswerInflight(k)

SpecRace == InitRace /\ [][NextRace]_vars

(***************************************************************************)
(* Vocabulary of the properties.                                           *)
(***************************************************************************)
\* The request id names row i: its numeric value is the row's id.
Designates(i, id) ==
    \/ IdEqualsNumber(devotionals[i].id, NumberOfId[id])
    \/ IdEqualsText(devotionals[i].id, id)

\* The decimal string of a rowid, as a client puts it in the URL.
RECURSIVE DecimalString(_)
DecimalString(n) ==
    IF n < 10 THEN <<HexDigits[n + 1]>>
    ELSE DecimalString(n \div 10) \o <<HexDigits[(n % 10) + 1]>>

\* The id string is written as a non-negative integer: decimal digits only.
NonNegativeInteger(id) == id # <<>> /\ AllDigits(id, 10)

\* The step is a GET or a DELETE of /api/devotionals/:id with this id.
GetOrDelete(id) == GetDevotional(id) \/ DeleteDevotional(id)

\* Every handler records the :id of its request in last, so a step that
\* handles a request with id has last'.id = id: the step properties below
\* range over that one id.

(***************************************************************************)
(* C1                                                                      *)
(***************************************************************************)
\* C1: once a softDelete of a devotional has returned success (204), in every
\* later state getById of its id returns NotFound (404) and no result of
\* listActive contains it.
C1_DeletedNeverVisible ==
    \A i \in DOMAIN devotionals :
        delete204[i] > 0 =>
            /\ \A id \in IdInputs :
                  Designates(i, id) => GetResponse(devotionals, id).status = 404
            /\ \A q \in SelectActive(devotionals) :
                  \A k \in DOMAIN q : q[k].id # devotionals[i].id
            /\ (last.op = "get" /\ last.status = 200
                  => last.body.id # devotionals[i].id)
            /\ (last.op = "list"
                  => \A k \in DOMAIN last.body.rows :
                        last.body.rows[k].id # devotionals[i].id)

\* A getById of a deleted devotional has been answered 404.
C1_Witness ==
    \E i \in DOMAIN devotionals :
        /\ delete204[i] > 0
        /\ last.op = "get"
        /\ IdEqualsText(devotionals[i].id, last.id)
        /\ last.status = 404

(***************************************************************************)
(* C2                                                                      *)
(***************************************************************************)
\* C2: of all the softDelete calls on one record, in any order, exactly one
\* returns 204 and every other returns 404, and deleted_at is written exactly
\* once: a row is deleted iff one call on it returned 204 and one write of
\* deleted_at happened, and after any softDelete call on a row that count is 1.
C2_DeleteOnce ==
    /\ \A i \in DOMAIN devotionals :
          LET n == IF devotionals[i].deleted_at = NULL THEN 0 ELSE 1
          IN  delete204[i] = n /\ Len(deletedAtWrites[i]) = n
    /\ (last.op = "delete" /\ ~isNaN(NumberOfId[last.id]))
          => /\ last.status \in {204, 404}
             /\ \A i \in DOMAIN devotionals :
                   IdEqualsNumber(devotionals[i].id, NumberOfId[last.id])
                      => delete204[i] = 1

\* A second softDelete of a record has been answered 404.
C2_Witness ==
    \E i \in DOMAIN devotionals :
        /\ delete204[i] = 1
        /\ last.op = "delete"
        /\ IdEqualsNumber(devotionals[i].id, NumberOfId[last.id])
        /\ last.status = 404

(***************************************************************************)
(* C3                                                                      *)
(***************************************************************************)
\* C3: on an active record, updatePartial with only content supplied leaves
\* verse unchanged, stores the content and sets updated_at to the current
\* time; with only verse supplied it leaves content unchanged.
C3_PartialUpdateFrame ==
    [][ \A id \in {last'.id} \cap IdInputs : \A v \in BodyValues :
          /\ (last'.op = "patch" /\ Truthy(v)
                 /\ UpdateDevotional(id, Undefined, v))
                => \A i \in DOMAIN devotionals :
                      (devotionals[i].deleted_at = NULL
                         /\ IdEqualsText(devotionals[i].id, id))
                      => /\ last'.status = 200
                         /\ devotionals'[i] =
                               [devotionals[i] EXCEPT !.content = v.str,
                                                      !.updated_at = now]
          /\ (last'.op = "patch" /\ Truthy(v)
                 /\ UpdateDevotional(id, v, Undefined))
                => \A i \in DOMAIN devotionals :
                      (devotionals[i].deleted_at = NULL
                         /\ IdEqualsText(devotionals[i].id, id))
                      => /\ last'.status = 200
                         /\ devotionals'[i] =
                               [devotionals[i] EXCEPT !.verse = v.str,
                                                      !.updated_at = now]
      ]_vars

\* A content-only update has been applied to a record whose verse differs
\* from the new content, a second after the record was created.
C3_Witness ==
    /\ last.op = "patch"
    /\ last.status = 200
    /\ last.body.verse = Undefined
    /\ \E i \in DOMAIN devotionals :
          /\ IdEqualsText(devotionals[i].id, last.id)
          /\ devotionals[i].content = last.body.content.str
          /\ devotionals[i].verse # devotionals[i].content
          /\ devotionals[i].updated_at = now
          /\ devotionals[i].created_at < now

(***************************************************************************)
(* C4                                                                      *)
(***************************************************************************)
\* C4: deleted_at of a record is absent or it is the timestamp written by the
\* single successful softDelete of the record, and once set no step clears
\* or changes it.
C4_DeletedAtTerminal ==
    /\ [](\A i \in DOMAIN devotionals :
             devotionals[i].deleted_at # NULL
                => /\ deletedAtWrites[i] = <<devotionals[i].deleted_at>>
                   /\ delete204[i] = 1)
    /\ [][ \A i \in DOMAIN devotionals :
              devotionals[i].deleted_at # NULL
                 => devotionals'[i].deleted_at = devotionals[i].deleted_at
         ]_vars

\* A deleted record has been the target of a DELETE or PATCH in a later second.
C4_Witness ==
    \E i \in DOMAIN devotionals :
        /\ devotionals[i].deleted_at # NULL
        /\ devotionals[i].deleted_at < now
        /\ last.op \in {"delete", "patch"}
        /\ Designates(i, last.id)
        /\ last.status = 404

(***************************************************************************)
(* C5                                                                      *)
(***************************************************************************)
\* C5: updatePartial with valid fields on a record whose deleted_at is set
\* returns 404 and leaves the record's verse, content and updated_at unchanged.
C5_DeletedImmutable ==
    [][ \A id \in {last'.id} \cap IdInputs :
          \A i \in DOMAIN devotionals :
             (last'.op = "patch" /\ devotionals[i].deleted_at # NULL
                /\ Designates(i, id))
             => \A v, c \in BodyValues :
                   ((Truthy(v) \/ Truthy(c)) /\ UpdateDevotional(id, v, c))
                   => /\ last'.status = 404
                      /\ devotionals'[i] = devotionals[i]
      ]_vars

\* An update of a deleted record has been answered 404.
C5_Witness ==
    /\ last.op = "patch"
    /\ last.status = 404
    /\ \E i \in DOMAIN devotionals :
          /\ devotionals[i].deleted_at # NULL
          /\ IdEqualsText(devotionals[i].id, last.id)

(***************************************************************************)
(* C6                                                                      *)
(***************************************************************************)
\* C6: after a create answered 201, the id it returned is the id of exactly
\* one row, and getById of that id returns that row with the verse and
\* content supplied, created_at set, updated_at and deleted_at absent.
C6_CreateThenGet ==
    (last.op = "post" /\ last.status = 201)
       => LET r == GetResponse(devotionals, DecimalString(last.body.id))
          IN  /\ Cardinality({i \in DOMAIN devotionals :
                                  devotionals[i].id = last.body.id}) = 1
              /\ r.status = 200
              /\ r.body.id = last.body.id
              /\ r.body.verse = last.body.verse.str
              /\ r.body.content = last.body.content.str
              /\ r.body.created_at \in 0..now
              /\ r.body.updated_at = NULL
              /\ r.body.deleted_at = NULL

\* A second record has been created, its verse different from its content.
C6_Witness ==
    /\ last.op = "post"
    /\ last.status = 201
    /\ last.body.id = 2
    /\ last.body.verse # last.body.content

(***************************************************************************)
(* C7                                                                      *)
(***************************************************************************)
\* C7: create with verse or content missing or empty returns 400, inserts no
\* row and leaves the next id to be assigned unchanged.
C7_CreateValidation ==
    [][ last'.op = "post"
          => \A v, c \in BodyValues :
                ((~Truthy(v) \/ ~Truthy(c)) /\ CreateDevotional(v, c))
                => /\ last'.status = 400
                   /\ devotionals' = devotionals
                   /\ sqlite_sequence' = sqlite_sequence
      ]_vars

\* A create has been rejected with 400 while the table holds a record.
C7_Witness ==
    /\ last.op = "post"
    /\ last.status = 400
    /\ Len(devotionals) > 0
    /\ sqlite_sequence = Len(devotionals)

(***************************************************************************)
(* C8                                                                      *)
(***************************************************************************)
\* C8: listActive returns the active records most recently created first,
\* whatever the time between the creates: records created A, B, C are listed
\* C, B, A (ids are assigned in creation order).
C8_NewestFirst ==
    last.op = "list"
       => \A k, l \in DOMAIN last.body.rows :
             k < l => last.body.rows[k].id > last.body.rows[l].id

(***************************************************************************)
(* C9                                                                      *)
(***************************************************************************)
\* C9, as claimed: getById, updatePartial and softDelete with an id that is
\* not written as a non-negative integer are answered 400.
C9_NonIntegerIdRejected ==
    (last.op \in {"get", "patch", "delete"} /\ ~NonNegativeInteger(last.id))
       => last.status = 400

\* C9, amended: an id that Number() converts to NaN is answered 400 by
\* getById, updatePartial and softDelete and the store is unchanged; an id
\* whose numeric value is negative or not an integer passes the id validation
\* and is answered 404 (updatePartial: with valid fields), store unchanged.
C9_NaNIdRejected ==
    [][ \A id \in {last'.id} \cap IdInputs :
          LET x == NumberOfId[id]
          IN  /\ (isNaN(x)
                    /\ (GetOrDelete(id)
                          \/ \E v, c \in BodyValues : UpdateDevotional(id, v, c)))
                    => /\ last'.status = 400
                       /\ UNCHANGED <<devotionals, sqlite_sequence>>
              /\ (~isNaN(x) /\ (x.num < 0 \/ x.num % x.den # 0)
                    /\ (GetOrDelete(id)
                          \/ \E v, c \in BodyValues :
                                (Truthy(v) \/ Truthy(c))
                                   /\ UpdateDevotional(id, v, c)))
                    => /\ last'.status = 404
                       /\ UNCHANGED <<devotionals, sqlite_sequence>>
      ]_vars

\* A request with an id that is not a number has been answered 400 while the
\* table holds a record.
C9_Witness ==
    /\ last.op \in {"get", "patch", "delete"}
    /\ isNaN(NumberOfId[last.id])
    /\ last.status = 400
    /\ Len(devotionals) > 0

C11_UpdatedAtBookkeeping ==
    [][ /\ \A i \in DOMAIN devotionals' :
             IF i \in DOMAIN devotionals
             THEN devotionals'[i].updated_at # devotionals[i].updated_at
                     => /\ now' = now
                        /\ last'.op = "patch"
                        /\ last'.status = 200
                        /\ devotionals[i].deleted_at = NULL
                        /\ IdEqualsText(devotionals[i].id, last'.id)
                        /\ devotionals'[i].updated_at = now
             ELSE devotionals'[i].updated_at = NULL
        /\ \A id \in {last'.id} \cap IdInputs : \A v, c \in BodyValues :
             (last'.op = "patch" /\ last'.status = 200
                /\ UpdateDevotional(id, v, c))
             => \E i \in DOMAIN devotionals :
                   /\ IdEqualsText(devotionals[i].id, id)
                   /\ devotionals'[i].updated_at = now
      ]_vars

\* A record was updated a second after its creation, and another record was
\* deleted without ever being updated.
C11_Witness ==
    /\ last.op = "patch"
    /\ last.status = 200
    /\ \E i, j \in DOMAIN devotionals :
          /\ IdEqualsText(devotionals[i].id, last.id)
          /\ devotionals[i].created_at < now
          /\ devotionals[i].updated_at = now
          /\ devotionals[j].deleted_at # NULL
          /\ devotionals[j].updated_at = NULL

(***************************************************************************)
(* C12                                                                     *)
(***************************************************************************)
\* C12: when the store fails during a getById with a valid id the response is
\* 500, not 404.  (The body "Devotional Not Found" is the one that the catch
\* of the GET handler sends, and only it.)
C12_LookupFailureIs500 ==
    (last.op = "get" /\ last.body = Error("Devotional Not Found"))
       => last.status = 500

(***************************************************************************)
(* C13                                                                     *)
(***************************************************************************)
\* The requests of the race that supplied a value for field f ("verse" or
\* "content"): the handler takes a field as supplied when it is truthy.
Suppliers(f) == {k \in DOMAIN inflight : Truthy(inflight[k][f])}

\* C13: after two concurrent PATCH requests with valid bodies on the same
\* active id have both been answered, in either order, both were answered 200,
\* and each of verse and content holds the value of the last-ordered request
\* that supplied it (so a field that one request alone supplied holds that
\* request's value).
C13_LastWriterWins ==
    ( /\ DOMAIN inflight = 1..2
      /\ Answered = 1..2
      /\ \A k \in 1..2 : PatchValid(inflight[k].verse, inflight[k].content) )
    => /\ \A k \in 1..2 : inflight[k].status = 200
       /\ \A f \in {"verse", "content"} :
             \A k \in Suppliers(f) :
                (\A j \in Suppliers(f) : inflight[j].order <= inflight[k].order)
                   => devotionals[1][f] = inflight[k][f].str

C13_Witness ==
    /\ DOMAIN inflight = 1..2
    /\ Answered = 1..2
    /\ inflight[1].order = 2
    /\ inflight[1].status = 200 /\ inflight[2].status = 200
    /\ inflight[1].id # inflight[2].id
    /\ Suppliers("verse") = {1, 2}
    /\ Suppliers("content") = {2}
    /\ inflight[1].verse # inflight[2].verse
    /\ devotionals[1].verse = inflight[1].verse.str
    /\ devotionals[1].content = inflight[2].content.str
    /\ devotionals[1].content # "B"

(***************************************************************************)
(* C14                                                                     *)
(***************************************************************************)
\* C14: after a PATCH answered 200 whose body supplied both verse V and
\* content C, the record that the id names holds verse V and content C.
C14_FullUpdateOwnFields ==
    ( /\ last.op = "patch" /\ last.status = 200
      /\ Truthy(last.body.verse) /\ Truthy(last.body.content) )
    => \A i \in DOMAIN devotionals :
          IdEqualsText(devotionals[i].id, last.id)
             => /\ devotionals[i].verse = last.body.verse.str
                /\ devotionals[i].content = last.body.content.str

(***************************************************************************)
(* C15                                                                     *)
(***************************************************************************)
\* C15: no step removes a row or changes the id of one; the id of a row that
\* a step inserts differs from the id of every row stored before, deleted or
\* not, and is the id that the 201 response reports; so the stored ids are
\* pairwise distinct and their set never shrinks.
C15_IdsUniqueRowsPersist ==
    [][ /\ Len(devotionals') >= Len(devotionals)
        /\ \A i \in DOMAIN devotionals : devotionals'[i].id = devotionals[i].id
        /\ \A i \in DOMAIN devotionals' \ DOMAIN devotionals :
              /\ \A j \in DOMAIN devotionals :
                    devotionals'[i].id # devotionals[j].id
              /\ last'.op = "post" /\ last'.status = 201
              /\ last'.body.id = devotionals'[i].id
        /\ \A i, j \in DOMAIN devotionals' :
              i # j => devotionals'[i].id # devotionals'[j].id
      ]_vars

C15_Witness ==
    /\ Len(devotionals) = 2
    /\ devotionals[1].deleted_at # NULL
    /\ last.op = "post" /\ last.status = 201
    /\ last.body.id = devotionals[2].id
    /\ devotionals[2].id # devotionals[1].id

(***************************************************************************)
(* C16                                                                     *)
(***************************************************************************)
\* C16: no step changes the created_at or the id of a stored row; a row that
\* a step inserts (a POST answered 201) gets the time of the insert as its
\* created_at.
C16_CreatedAtWrittenOnce ==
    [][ \A i \in DOMAIN devotionals' :
          IF i \in DOMAIN devotionals
          THEN /\ devotionals'[i].created_at = devotionals[i].created_at
               /\ devotionals'[i].id = devotionals[i].id
          ELSE /\ last'.op = "post" /\ last'.status = 201
               /\ devotionals'[i].created_at = now
      ]_vars

C16_Witness ==
    \E i \in DOMAIN devotionals :
       /\ devotionals[i].updated_at # NULL
       /\ devotionals[i].deleted_at # NULL
       /\ devotionals[i].created_at < devotionals[i].updated_at
       /\ devotionals[i].created_at < devotionals[i].deleted_at

(***************************************************************************)
(* C17                                                                     *)
(***************************************************************************)
\* The rows that a step inserted or changed.
ChangedRows ==
    {i \in DOMAIN devotionals' :
        i \notin DOMAIN devotionals \/ devotionals'[i] # devotionals[i]}

\* C17: a step inserts or changes at most one row: the row inserted by a POST
\* answered 201, the row whose id the id of a PATCH answered 200 equals, or
\* the row whose id the numeric id of a DELETE answered 204 equals; every
\* other row is as it was, and a step answered 400 or 404 changes no row.
C17_SingleRowEffect ==
    [][ /\ Len(devotionals') >= Len(devotionals)
        /\ Cardinality(ChangedRows) <= 1
        /\ \A i \in ChangedRows :
              \/ /\ last'.op = "post" /\ last'.status = 201
                 /\ i \notin DOMAIN devotionals
                 /\ devotionals'[i].id = last'.body.id
              \/ /\ last'.op = "patch" /\ last'.status = 200
                 /\ i \in DOMAIN devotionals
                 /\ IdEqualsText(devotionals[i].id, last'.id)
              \/ /\ last'.op = "delete" /\ last'.status = 204
                 /\ i \in DOMAIN devotionals
                 /\ IdEqualsNumber(devotionals[i].id, NumberOfId[last'.id])
        /\ last'.status \in {400, 404} => devotionals' = devotionals
      ]_vars

C17_Witness ==
    /\ Len(devotionals) = 2
    /\ last.op = "patch" /\ last.status = 200
    /\ \E i, j \in DOMAIN devotionals :
          /\ IdEqualsText(devotionals[i].id, last.id)
          /\ devotionals[i].updated_at = now
          /\ devotionals[j].deleted_at = NULL
          /\ devotionals[j].updated_at = NULL

(***************************************************************************)
(* C18                                                                     *)
(***************************************************************************)
\* C18: in every reachable state and for every id that passes the id check,
\* the rows that the GET statement selects, the rows that the PATCH statement
\* would update and the rows that the DELETE statement would update are the
\* same rows (GET and PATCH bind the id string, DELETE binds Number(id)).
C18_OperationsAgreeOnId ==
    \A id \in IdInputs :
       ValidId(id) =>
          LET got == {i \in DOMAIN devotionals :
                         SelectByIdWhere(devotionals[i], id)}
              patched == {i \in DOMAIN devotionals :
                             UpdateWhere(devotionals[i], id)}
              deleted == {i \in DOMAIN devotionals :
                             DeleteWhere(devotionals[i], NumberOfId[id])}
          IN  got = patched /\ got = deleted
====
